---- MODULE Spec2Model ----
(***************************************************************************)
(* Matrix Chain Multiplication Optimizer                                   *)
(* (src/Matrix_Chain_Multiplication_Optimizer.cpp).                        *)
(*                                                                         *)
(* The program's main flow is modelled as a state machine: the dimension   *)
(* sequence is read (manual mode) or generated (random mode), the          *)
(* MatrixChainOptimizer is constructed, computeOptimalOrder runs its three *)
(* nested loops one iteration per step, the results are reported, the DP   *)
(* tables are optionally shown and the report is saved to a file.          *)
(* catalanNumber is modelled both as an operator (used by the main flow)   *)
(* and as a loop stepped one outer iteration at a time (SpecCatalan).      *)
(*                                                                         *)
(* int is 32-bit two's complement; signed overflow is undefined behaviour  *)
(* and is modelled as the choice between wrap-around and a trap.           *)
(***************************************************************************)
EXTENDS Integers, Sequences, FiniteSets, TLC

VARIABLES
    pc,           \* position in main(): start, diag, interval, scan, report, show, save, done, crashed
    numMatrices,  \* main's local numMatrices
    P,            \* MatrixChainOptimizer::P, a function on 0..n
    n,            \* MatrixChainOptimizer::n
    m,            \* cost table, m[i][j] for i, j in 0..n
    s,            \* split table, same shape
    L, i, k,      \* loop variables of computeOptimalOrder (j is i + L - 1)
    overflowed,   \* history: a signed 32-bit overflow has been evaluated
    readLog,      \* history: <<a, b, v>> for every m[a][b] = v read by a candidate q
    sLog,         \* history: sLog[<<a, b>>] is the sequence of <<k, q>> written to s[a][b], m[a][b]
    costOut,      \* value printed after "Minimum number of multiplications: "
    exprOut,      \* characters printed by printOptimalParenthesisToConsole
    catalanOut,   \* value printed after "Catalan number: "
    tablesOut,    \* what displayTables printed (<<>> when it was not called)
    fileOpen,     \* "unopened", "ok" or "failed": state of the ofstream in saveToFile
    fileOut,      \* contents of matrix_chain_output.txt (<<>> when nothing was written)
    savedMsg,     \* "Results saved to file: ..." has been printed on the console
    catN, cat, catI, catPc, catResult   \* catalanNumber run on its own: argument, table, outer index, position, value returned

mainVars == <<pc, numMatrices, P, n, m, s, L, i, k, overflowed, readLog, sLog,
              costOut, exprOut, catalanOut, tablesOut, fileOpen, fileOut, savedMsg>>
catVars == <<catN, cat, catI, catPc, catResult>>
vars == <<mainVars, catVars>>

----------------------------------------------------------------------------
(* Bounds of the model *)

MaxN == 4           \* manual mode: numMatrices ranges over 0..MaxN
MaxRandOffset == 0  \* random mode: rand() % 11 ranges over 0..MaxRandOffset
MaxCatN == 14       \* catalanNumber on its own: n ranges over 0..MaxCatN

(* Program constants *)

INT_MAX == 2147483647
RandBase == 5
RandMinDim == 1
RandMaxDim == 1000

INT_MIN == -INT_MAX - 1

----------------------------------------------------------------------------
(* 32-bit signed arithmetic.  TLC's integers are 32 bits wide themselves,  *)
(* so sums and products are formed without leaving the range.              *)

Abs(a) == IF a < 0 THEN -a ELSE a

AddFits(a, b) ==
    IF b >= 0 THEN a <= INT_MAX - b ELSE a >= INT_MIN - b

\* a + b reduced modulo 2^32 into INT_MIN..INT_MAX
AddWrap(a, b) ==
    IF AddFits(a, b) THEN a + b
    ELSE IF b >= 0 THEN ((a - INT_MAX) + (b - INT_MAX)) - 2
    ELSE ((a + INT_MAX) + (b + INT_MAX)) + 2

MulFits(a, b) ==
    IF a = 0 \/ b = 0 THEN TRUE
    ELSE IF a = INT_MIN THEN b = 1
    ELSE IF b = INT_MIN THEN a = 1
    ELSE \/ Abs(a) <= INT_MAX \div Abs(b)
         \/ /\ (a < 0) # (b < 0)
            /\ Abs(a) = (INT_MAX \div Abs(b)) + 1
            /\ (INT_MAX % Abs(b)) + 1 = Abs(b)

\* the 16-bit halves of the two's complement representation of a
Lo16(a) == a % 65536
Hi16(a) == (a \div 65536) % 65536

\* the int whose two's complement representation has the halves h, l
FromHalves(h, l) ==
    IF h >= 32768 THEN (h - 65536) * 65536 + l ELSE h * 65536 + l

\* x * y modulo 2^16, for x, y in 0..65535
MulMod16(x, y) ==
    (x * (y % 256) + ((x * (y \div 256)) % 256) * 256) % 65536

\* the halves of x * y modulo 2^32, for x, y in 0..65535
MulHalves(x, y) ==
    LET u == x * (y % 256)
        v == x * (y \div 256)
        l == (u % 65536) + (v % 256) * 256
    IN << ((u \div 65536) + (v \div 256) + (l \div 65536)) % 65536, l % 65536 >>

\* a * b reduced modulo 2^32 into INT_MIN..INT_MAX
MulWrap(a, b) ==
    IF MulFits(a, b) THEN a * b
    ELSE LET p == MulHalves(Lo16(a), Lo16(b))
             cross == MulMod16(Hi16(a), Lo16(b)) + MulMod16(Lo16(a), Hi16(b))
         IN FromHalves((p[1] + cross) % 65536, p[2])

----------------------------------------------------------------------------
(* MatrixChainOptimizer: constructor and computeOptimalOrder *)

\* vector<vector<int>>(n + 1, vector<int>(n + 1, 0))
ZeroTable(nn) == [a \in 0..nn |-> [b \in 0..nn |-> 0]]

\* the pairs a < b of 1..nn, the intervals the split table is used for
Intervals(nn) == {ab \in (1..nn) \X (1..nn) : ab[1] < ab[2]}

\* int j = i + L - 1
IntervalEnd(LL, ii) == ii + LL - 1

j == IntervalEnd(L, i)

ProductMutTwoFactors(dims, ii, kk, jj) == MulWrap(dims[ii - 1], dims[jj])

\* P[i - 1] * P[k] * P[j], evaluated left to right in int
Product(dims, ii, kk, jj) == MulWrap(MulWrap(dims[ii - 1], dims[kk]), dims[jj])

ProductFits(dims, ii, kk, jj) ==
    /\ MulFits(dims[ii - 1], dims[kk])
    /\ MulFits(dims[ii - 1] * dims[kk], dims[jj])

CandidateMutLeftDim(mm, dims, ii, kk, jj) ==
    AddWrap(AddWrap(mm[ii][kk], mm[kk + 1][jj]), Product(dims, ii + 1, kk, jj))

\* int q = m[i][k] + m[k + 1][j] + P[i - 1] * P[k] * P[j]
Candidate(mm, dims, ii, kk, jj) ==
    AddWrap(AddWrap(mm[ii][kk], mm[kk + 1][jj]), Product(dims, ii, kk, jj))

\* no step of the evaluation of q leaves the range of int
CandidateFits(mm, dims, ii, kk, jj) ==
    /\ ProductFits(dims, ii, kk, jj)
    /\ AddFits(mm[ii][kk], mm[kk + 1][jj])
    /\ AddFits(mm[ii][kk] + mm[kk + 1][jj], Product(dims, ii, kk, jj))

\* if (q < m[i][j])
Better(q, cur) == q < cur

\* m[i][j] = q, inside the if
CostAfter(mm, ii, jj, q, better) ==
    IF better THEN [mm EXCEPT ![ii][jj] = q] ELSE mm

SplitAfterMutAlways(ss, ii, jj, kk, better) == [ss EXCEPT ![ii][jj] = kk]

\* s[i][j] = k, inside the if
SplitAfter(ss, ii, jj, kk, better) ==
    IF better THEN [ss EXCEPT ![ii][jj] = kk] ELSE ss

AdvanceIntervalMutRowMajor(LL, ii, nn) ==
    IF ii + LL <= nn THEN <<LL + 1, ii>>
    ELSE IF ii + 1 <= nn - 1 THEN <<2, ii + 1>>
    ELSE <<nn + 1, 1>>

\* ++i of the inner for; when i passes n - L + 1, ++L of the outer for and i = 1
AdvanceInterval(LL, ii, nn) ==
    IF ii + 1 <= nn - LL + 1 THEN <<LL, ii + 1>> ELSE <<LL + 1, 1>>

\* MatrixChainOptimizer optimizer(P) for a sequence dims on 0..nm
Construct(nm, dims) ==
    /\ numMatrices' = nm
    /\ P' = dims
    /\ n' = Cardinality(DOMAIN dims) - 1
    /\ m' = ZeroTable(nm)
    /\ s' = ZeroTable(nm)
    /\ sLog' = [ab \in Intervals(nm) |-> <<>>]
    /\ pc' = "diag"
    /\ UNCHANGED <<L, i, k, overflowed, readLog, costOut, exprOut, catalanOut,
                   tablesOut, fileOpen, fileOut, savedMsg, catVars>>

outVars == <<costOut, exprOut, catalanOut, tablesOut, fileOpen, fileOut, savedMsg>>

\* for (int i = 1; i <= n; ++i) m[i][i] = 0;  then L = 2, i = 1
InitDiagonal ==
    /\ pc = "diag"
    /\ m' = [a \in 0..n |-> [b \in 0..n |-> IF a = b /\ a >= 1 THEN 0 ELSE m[a][b]]]
    /\ L' = 2
    /\ i' = 1
    /\ pc' = "interval"
    /\ UNCHANGED <<numMatrices, P, n, s, k, overflowed, readLog, sLog, outVars, catVars>>

\* loop tests L <= n and i <= n - L + 1 hold: j = i + L - 1; m[i][j] = INT_MAX; k = i
BeginInterval ==
    /\ pc = "interval"
    /\ L <= n
    /\ m' = [m EXCEPT ![i][j] = INT_MAX]
    /\ k' = i
    /\ pc' = "scan"
    /\ UNCHANGED <<numMatrices, P, n, s, L, i, overflowed, readLog, sLog, outVars, catVars>>

\* one iteration of for (int k = i; k < j; ++k)
ScanK ==
    /\ pc = "scan"
    /\ k < j
    /\ LET fits == CandidateFits(m, P, i, k, j)
           q == Candidate(m, P, i, k, j)
           better == Better(q, m[i][j])
       IN \E trap \in (IF fits THEN {FALSE} ELSE {FALSE, TRUE}) :
            /\ overflowed' = (overflowed \/ ~fits)
            /\ IF trap
               THEN /\ pc' = "crashed"
                    /\ UNCHANGED <<m, s, k, readLog, sLog>>
               ELSE /\ m' = CostAfter(m, i, j, q, better)
                    /\ s' = SplitAfter(s, i, j, k, better)
                    /\ k' = k + 1
                    /\ readLog' = readLog \cup {<<i, k, m[i][k]>>, <<k + 1, j, m[k + 1][j]>>}
                    /\ sLog' = IF better
                               THEN [sLog EXCEPT ![<<i, j>>] = Append(@, <<k, q>>)]
                               ELSE sLog
                    /\ pc' = "scan"
    /\ UNCHANGED <<numMatrices, P, n, L, i, outVars, catVars>>

\* k < j fails: the scan of [i, j] is over, advance to the next interval
EndScan ==
    /\ pc = "scan"
    /\ k >= j
    /\ L' = AdvanceInterval(L, i, n)[1]
    /\ i' = AdvanceInterval(L, i, n)[2]
    /\ pc' = "interval"
    /\ UNCHANGED <<numMatrices, P, n, m, s, k, overflowed, readLog, sLog, outVars, catVars>>

\* L <= n fails: computeOptimalOrder returns
EndSolver ==
    /\ pc = "interval"
    /\ L > n
    /\ pc' = "report"
    /\ UNCHANGED <<numMatrices, P, n, m, s, L, i, k, overflowed, readLog, sLog, outVars, catVars>>

computeOptimalOrder == InitDiagonal \/ BeginInterval \/ ScanK \/ EndScan \/ EndSolver

----------------------------------------------------------------------------
(* Output: operator<< on int, printOptimalParenthesis, displayTables.       *)
(* A stream is the string of the characters inserted into it so far.       *)

Digit(d) == <<"0", "1", "2", "3", "4", "5", "6", "7", "8", "9">>[d + 1]

RECURSIVE DecimalNat(_)
DecimalNat(x) ==
    IF x < 10 THEN Digit(x) ELSE DecimalNat(x \div 10) \o Digit(x % 10)

\* out << x for an int x: the characters of its decimal representation
ToDecimal(x) ==
    IF x >= 0 THEN DecimalNat(x)
    ELSE IF x = INT_MIN THEN ("-" \o DecimalNat(INT_MAX \div 10)) \o "8"
    ELSE "-" \o DecimalNat(-x)

\* out << " x "
Separator == " x "

LeafMutZeroBased(a, out) == (out \o "A") \o ToDecimal(a - 1)

\* out << "A" << i
Leaf(a, out) == (out \o "A") \o ToDecimal(a)

RECURSIVE WellFormed(_, _, _)
\* the recursion of printOptimalParenthesis(a, b) strictly shrinks the interval
\* at every level (otherwise it never returns)
WellFormed(ss, a, b) ==
    \/ a = b
    \/ /\ a < b
       /\ ss[a][b] \in a..(b - 1)
       /\ WellFormed(ss, a, ss[a][b])
       /\ WellFormed(ss, ss[a][b] + 1, b)

RECURSIVE printOptimalParenthesis(_, _, _, _)
\* printOptimalParenthesis(i, j, out): the stream after the call
printOptimalParenthesis(ss, a, b, out) ==
    IF a = b THEN Leaf(a, out)
    ELSE LET o1 == out \o "("
             o2 == printOptimalParenthesis(ss, a, ss[a][b], o1)
             o3 == o2 \o Separator
             o4 == printOptimalParenthesis(ss, ss[a][b] + 1, b, o3)
         IN o4 \o ")"

\* displayTables(true): the rows of table m, then the rows of table s
displayTables(mm, ss, nn) ==
    << [a \in 1..nn |-> [b \in 1..nn |-> IF a > b THEN "-" ELSE ToDecimal(mm[a][b])]],
       [a \in 1..nn |-> [b \in 1..nn |-> IF a >= b THEN "-" ELSE ToDecimal(ss[a][b])]] >>

----------------------------------------------------------------------------
(* catalanNumber *)

CatTermMutOffByOne(c, ii, jj) == c[jj] * c[ii - jj]

\* cat[j] * cat[i - j - 1]
CatTerm(c, ii, jj) == c[jj] * c[ii - jj - 1]

RECURSIVE CatInner(_, _, _)
\* for (int j = jj; j < i; ++j) cat[i] += cat[j] * cat[i - j - 1]
CatInner(c, ii, jj) ==
    IF jj < ii
    THEN CatInner([c EXCEPT ![ii] = c[ii] + CatTerm(c, ii, jj)], ii, jj + 1)
    ELSE c

RECURSIVE CatOuter(_, _, _)
\* for (int i = ii; i <= n; ++i) <inner loop>
CatOuter(c, ii, nn) ==
    IF ii <= nn THEN CatOuter(CatInner(c, ii, 0), ii + 1, nn) ELSE c

\* vector<long long> cat(n + 1, 0); cat[0] = cat[1] = 1
CatTable(nn) == [x \in 0..nn |-> IF x <= 1 THEN 1 ELSE 0]

\* static long long catalanNumber(int n)
catalanNumber(nn) ==
    IF nn <= 1 THEN 1 ELSE CatOuter(CatTable(nn), 2, nn)[nn]

----------------------------------------------------------------------------
(* main after computeOptimalOrder, and saveToFile *)

\* values an out-of-bounds read may deliver
UBInts == {-1, 0, 7}

\* getMinCost, printOptimalParenthesisToConsole and catalanNumber as main calls them.
\* n >= 1 and a split table the recursion terminates on: the defined case.
\* n >= 1 and s[a][b] = 0 somewhere on the way: the recursion never returns and the
\* stack is exhausted after the cost is printed.
\* n < 1: m[1][n] is read out of bounds.
ReportOutcomes ==
    IF n >= 1 /\ WellFormed(s, 1, n)
    THEN {[pc |-> "show", cost |-> m[1][n],
           expr |-> printOptimalParenthesis(s, 1, n, "")]}
    ELSE IF n >= 1
    THEN {[pc |-> "crashed", cost |-> m[1][n], expr |-> "("]}
    ELSE {[pc |-> "crashed", cost |-> 0, expr |-> ""]}
         \cup {[pc |-> "show", cost |-> g, expr |-> "("] : g \in UBInts}

Report ==
    /\ pc = "report"
    /\ \E o \in ReportOutcomes :
         /\ pc' = o.pc
         /\ costOut' = o.cost
         /\ exprOut' = o.expr
         /\ catalanOut' = IF o.pc = "show" THEN catalanNumber(numMatrices) ELSE catalanOut
    /\ UNCHANGED <<numMatrices, P, n, m, s, L, i, k, overflowed, readLog, sLog,
                   tablesOut, fileOpen, fileOut, savedMsg, catVars>>

\* cin >> showTables; if (showTables == 'y' || showTables == 'Y') displayTables(true)
ShowTables ==
    /\ pc = "show"
    /\ \E show \in BOOLEAN :
         tablesOut' = IF show THEN displayTables(m, s, n) ELSE <<>>
    /\ pc' = "save"
    /\ UNCHANGED <<numMatrices, P, n, m, s, L, i, k, overflowed, readLog, sLog,
                   costOut, exprOut, catalanOut, fileOpen, fileOut, savedMsg, catVars>>

\* what saveToFile inserts into fout, in order
FileReports ==
    IF n >= 1
    THEN {[dims |-> P, cost |-> m[1][n],
           expr |-> printOptimalParenthesis(s, 1, n, ""),
           matrices |-> n, catalan |-> catalanNumber(n)]}
    ELSE {[dims |-> P, cost |-> g, expr |-> "(",
           matrices |-> n, catalan |-> catalanNumber(n)] : g \in UBInts}

\* optimizer.saveToFile("matrix_chain_output.txt"): the stream is never tested, a
\* failed open turns every insertion into a no-op, the console message is printed
\* in either case
saveToFile ==
    /\ pc = "save"
    /\ \E opened \in BOOLEAN, r \in FileReports :
         /\ fileOpen' = IF opened THEN "ok" ELSE "failed"
         /\ fileOut' = IF opened THEN <<r>> ELSE <<>>
    /\ savedMsg' = TRUE
    /\ pc' = "done"
    /\ UNCHANGED <<numMatrices, P, n, m, s, L, i, k, overflowed, readLog, sLog,
                   costOut, exprOut, catalanOut, tablesOut, catVars>>

----------------------------------------------------------------------------
(* main: the two input modes *)

\* dimensions typed in manual mode (nothing rejects a 0)
ManualDims == {0, 10, 20, 30, 40}

\* dimensions typed in manual mode at the edge of int
BoundaryDims == {1, INT_MAX}

\* minDim + rand() % (maxDim - minDim + 1): the two ends of the range
RandomDims == {RandMinDim, RandMaxDim}

\* mode == 1: cin >> numMatrices; cin >> P[0..numMatrices]; MatrixChainOptimizer optimizer(P)
ManualInput ==
    /\ pc = "start"
    /\ \E nm \in 0..MaxN : \E dims \in [0..nm -> ManualDims] : Construct(nm, dims)

BoundaryInput ==
    /\ pc = "start"
    /\ \E nm \in 0..MaxN : \E dims \in [0..nm -> BoundaryDims] : Construct(nm, dims)

\* mode == 2: numMatrices = 5 + rand() % 11; P = generateRandomDimensions(numMatrices)
RandomInput ==
    /\ pc = "start"
    /\ \E off \in 0..MaxRandOffset :
         \E dims \in [0..(RandBase + off) -> RandomDims] : Construct(RandBase + off, dims)

AfterInput == computeOptimalOrder \/ Report \/ ShowTables \/ saveToFile

----------------------------------------------------------------------------
(* catalanNumber on its own, one outer iteration per step *)

\* if (n <= 1) return 1; vector<long long> cat(n + 1, 0); cat[0] = cat[1] = 1; i = 2
CatalanEnter ==
    /\ catPc = "call"
    /\ cat' = IF catN <= 1 THEN <<>> ELSE CatTable(catN)
    /\ catI' = 2
    /\ catPc' = IF catN <= 1 THEN "returned" ELSE "loop"
    /\ catResult' = IF catN <= 1 THEN 1 ELSE catResult
    /\ UNCHANGED <<catN, mainVars>>

\* one iteration of for (int i = 2; i <= n; ++i)
CatalanStep ==
    /\ catPc = "loop"
    /\ catI <= catN
    /\ cat' = CatInner(cat, catI, 0)
    /\ catI' = catI + 1
    /\ UNCHANGED <<catN, catPc, catResult, mainVars>>

\* return cat[n]
CatalanReturn ==
    /\ catPc = "loop"
    /\ catI > catN
    /\ catResult' = cat[catN]
    /\ catPc' = "returned"
    /\ UNCHANGED <<catN, cat, catI, mainVars>>

----------------------------------------------------------------------------
(* Specifications *)

InitMain ==
    /\ pc = "start"
    /\ numMatrices = 0
    /\ P = <<>>
    /\ n = 0
    /\ m = <<>>
    /\ s = <<>>
    /\ L = 0 /\ i = 0 /\ k = 0
    /\ overflowed = FALSE
    /\ readLog = {}
    /\ sLog = <<>>
    /\ costOut = 0
    /\ exprOut = ""
    /\ catalanOut = 0
    /\ tablesOut = <<>>
    /\ fileOpen = "unopened"
    /\ fileOut = <<>>
    /\ savedMsg = FALSE

Init ==
    /\ InitMain
    /\ catN = 0 /\ cat = <<>> /\ catI = 0 /\ catPc = "idle" /\ catResult = 0

InitCatalan ==
    /\ InitMain
    /\ catN \in 0..MaxCatN
    /\ cat = <<>> /\ catI = 0 /\ catPc = "call" /\ catResult = 0

Next == ManualInput \/ AfterInput
NextRandom == RandomInput \/ AfterInput
NextBoundary == BoundaryInput \/ AfterInput
NextCatalan == CatalanEnter \/ CatalanStep \/ CatalanReturn

\* main in manual mode
Spec == Init /\ [][Next]_vars
\* main in random mode
SpecRandom == Init /\ [][NextRandom]_vars
\* main in manual mode, dimensions at the edge of int
SpecBoundary == Init /\ [][NextBoundary]_vars
\* catalanNumber(n) for n in 0..MaxCatN
SpecCatalan == InitCatalan /\ [][NextCatalan]_vars

----------------------------------------------------------------------------
(* Definitions the properties are stated with *)

\* main has printed the cost, the expression and the Catalan number
Reported == pc \in {"show", "save", "done"}

\* computeOptimalOrder has returned
Solved == pc \in {"report", "show", "save", "done"}

AllPositive == \A x \in DOMAIN P : P[x] > 0

\* P as the sequence P[0], .., P[n]
DimsAre(seq) == DOMAIN P = 0..(Len(seq) - 1) /\ \A x \in DOMAIN P : P[x] = seq[x + 1]

\* A full parenthesization of A_a .. A_b is the set of its products <<lo, hi, split>>:
\* (A_lo .. A_split) x (A_split+1 .. A_hi)
RECURSIVE Trees(_, _)
Trees(a, b) ==
    IF a >= b THEN {{}}
    ELSE UNION { { ({<<a, b, kk>>} \cup l) \cup r : l \in Trees(a, kk), r \in Trees(kk + 1, b) } :
                 kk \in a..(b - 1) }

\* sums and products of non-negative numbers that stop at INT_MAX
SatAdd(a, b) == IF a >= INT_MAX - b THEN INT_MAX ELSE a + b
SatMul(a, b) == IF MulFits(a, b) THEN a * b ELSE INT_MAX

\* scalar multiplications of one product of a parenthesization
StepCost(e, dims) == SatMul(SatMul(dims[e[1] - 1], dims[e[3]]), dims[e[2]])

RECURSIVE TreeCost(_, _)
\* total scalar multiplications of a parenthesization
TreeCost(t, dims) ==
    IF t = {} THEN 0
    ELSE LET e == CHOOSE x \in t : TRUE
         IN SatAdd(StepCost(e, dims), TreeCost(t \ {e}, dims))

\* the minimum over all full parenthesizations of A_1 .. A_n
BruteForceMin == 
    LET costs == {TreeCost(t, P) : t \in Trees(1, n)}
    IN CHOOSE c \in costs : \A d \in costs : c <= d

RECURSIVE SplitTree(_, _, _)
\* the parenthesization the split table describes for [a, b]
SplitTree(ss, a, b) ==
    IF a >= b THEN {}
    ELSE ({<<a, b, ss[a][b]>>} \cup SplitTree(ss, a, ss[a][b]))
         \cup SplitTree(ss, ss[a][b] + 1, b)

RECURSIVE Render(_, _, _, _)
\* "A" followed by a when a = b, "(" + render(a, s[a][b]) + sep + render(s[a][b] + 1, b) + ")" otherwise
Render(ss, a, b, sep) ==
    IF a = b THEN "A" \o ToDecimal(a)
    ELSE ((("(" \o Render(ss, a, ss[a][b], sep)) \o sep) \o Render(ss, ss[a][b] + 1, b, sep)) \o ")"

RECURSIVE CatalanRec(_)
\* C(0) = C(1) = 1, C(n) = sum over j in 0..n-1 of C(j) * C(n-1-j)
RECURSIVE CatalanSum(_, _)
CatalanSum(nn, jj) ==
    IF jj < 0 THEN 0 ELSE CatalanRec(jj) * CatalanRec(nn - 1 - jj) + CatalanSum(nn, jj - 1)
CatalanRec(nn) == IF nn <= 1 THEN 1 ELSE CatalanSum(nn, nn - 1)

----------------------------------------------------------------------------
(* Properties *)

\* C1: for n >= 1 and positive dimensions, the run does not crash and the value
\* getMinCost returns after computeOptimalOrder is the minimum total cost over all
\* full parenthesizations of A1..An, enumerated by brute force.
MinCostIsBruteForceMin ==
    (n >= 1 /\ AllPositive) =>
        /\ pc # "crashed"
        /\ Reported => costOut = BruteForceMin

\* C1 witness: a reported run of four matrices with positive, unequal dimensions
\* whose cost is the brute-force minimum over the five parenthesizations.
MinCostWitness ==
    /\ pc = "done"
    /\ n = 4
    /\ DimsAre(<<40, 20, 30, 10, 30>>)
    /\ Cardinality(Trees(1, n)) = 5
    /\ costOut = BruteForceMin
    /\ costOut = 26000

\* the parenthesizations of the classic example
ClaimedTree == {<<1, 4, 3>>, <<1, 3, 1>>, <<2, 3, 2>>}      \* ((A1 x (A2 x A3)) x A4)
LeftToRightTree == {<<1, 4, 3>>, <<1, 3, 2>>, <<1, 2, 1>>}  \* (((A1 x A2) x A3) x A4)

\* C2 as stated: for P = [10, 20, 30, 40, 30] the minimum cost is 30000 and
\* ((A1 x (A2 x A3)) x A4) has that cost.
ClassicExampleAsStated ==
    (Reported /\ DimsAre(<<10, 20, 30, 40, 30>>)) =>
        /\ costOut = 30000
        /\ TreeCost(ClaimedTree, P) = costOut

\* C2 amended: for P = [10, 20, 30, 40, 30] the run does not crash, the minimum cost
\* is 30000, the parenthesization emitted is (((A1 x A2) x A3) x A4) and it has that
\* cost; ((A1 x (A2 x A3)) x A4) costs 44000.
ClassicExampleAmended ==
    DimsAre(<<10, 20, 30, 40, 30>>) =>
        /\ pc # "crashed"
        /\ Reported =>
             /\ costOut = 30000
             /\ exprOut = "(((A1 x A2) x A3) x A4)"
             /\ SplitTree(s, 1, n) = LeftToRightTree
             /\ TreeCost(LeftToRightTree, P) = costOut
             /\ TreeCost(ClaimedTree, P) = 44000

\* C2 witness: the classic example has been solved and reported.
ClassicExampleWitness ==
    pc = "done" /\ DimsAre(<<10, 20, 30, 40, 30>>) /\ costOut = 30000

\* C3 as stated: the output for [1, n] is built with the separator " × ", and
\* P = [10, 20, 30] gives cost 6000 and "(A1 × A2)".
RenderAsStated ==
    (Reported /\ n >= 1) =>
        /\ exprOut = Render(s, 1, n, " × ")
        /\ DimsAre(<<10, 20, 30>>) => (costOut = 6000 /\ exprOut = "(A1 × A2)")

\* C3 amended: the output for [1, n] is "A" followed by i for a single matrix and
\* "(" + render(i, s[i][j]) + " x " + render(s[i][j] + 1, j) + ")" otherwise, the
\* separator being the letter x between two spaces; P = [10, 20, 30] gives cost
\* 6000 and "(A1 x A2)"; a single matrix gives "A1".
RenderAmended ==
    (Reported /\ n >= 1) =>
        /\ exprOut = Render(s, 1, n, " x ")
        /\ DimsAre(<<10, 20, 30>>) => (costOut = 6000 /\ exprOut = "(A1 x A2)")
        /\ n = 1 => exprOut = "A1"
        /\ DimsAre(<<10, 20, 30, 40>>) => exprOut = "((A1 x A2) x A3)"
        /\ DimsAre(<<40, 30, 20, 10>>) => exprOut = "(A1 x (A2 x A3))"

\* C3 witness: P = [10, 20, 30] has been reported as "(A1 x A2)".
RenderWitness ==
    pc = "done" /\ DimsAre(<<10, 20, 30>>) /\ exprOut = "(A1 x A2)" /\ costOut = 6000

\* C4: catalanNumber(n) returns C(n) of the recurrence C(0) = C(1) = 1,
\* C(n) = sum of C(j) * C(n-1-j); catalanNumber(0) = catalanNumber(1) = 1,
\* catalanNumber(4) = 14, catalanNumber(5) = 42.
CatalanMatchesRecurrence ==
    catPc = "returned" =>
        /\ catResult = CatalanRec(catN)
        /\ catN <= 1 => catResult = 1
        /\ catN = 4 => catResult = 14
        /\ catN = 5 => catResult = 42

\* C4 witness: catalanNumber(5) has returned 42 after its loop ran.
CatalanWitness ==
    catPc = "returned" /\ catN = 5 /\ catI = 6 /\ catResult = 42

\* C5: when saveToFile could not open the file, the failure is reported: no
\* "Results saved to file" message is printed; the run goes on and P, m, s are
\* as the solver left them.
FailedSaveIsReported ==
    (pc = "done" /\ fileOpen = "failed") => ~savedMsg

\* C6: the optimizer is constructed and used only on a sequence of length >= 2
\* whose entries are all > 0.
SolverOnlyOnValidInput ==
    pc # "start" => (Cardinality(DOMAIN P) >= 2 /\ AllPositive)

\* C7: after computeOptimalOrder (no overflow having occurred), for every i < j the
\* split s[i][j] is the lowest k in [i, j) whose candidate equals m[i][j], so
\* i <= s[i][j] < j; m[i][j] <= every candidate of [i, j]; and the parenthesization
\* the split table describes for [1, n] costs m[1][n].
SplitIsLowestMinimizer ==
    (Solved /\ ~overflowed) =>
        /\ \A ab \in Intervals(n) :
             LET a == ab[1]
                 b == ab[2]
             IN /\ s[a][b] \in a..(b - 1)
                /\ Candidate(m, P, a, s[a][b], b) = m[a][b]
                /\ \A kk \in a..(b - 1) :
                     /\ m[a][b] <= Candidate(m, P, a, kk, b)
                     /\ kk < s[a][b] => Candidate(m, P, a, kk, b) # m[a][b]
        /\ n >= 1 => (WellFormed(s, 1, n) /\ TreeCost(SplitTree(s, 1, n), P) = m[1][n])

\* C8: every m[a][b] a candidate q has read keeps the value that was read, in every
\* later state of the pass: it was final when read.
ReadsAreFinal ==
    \A r \in readLog : m[r[1]][r[2]] = r[3]

\* C8 witness: the pass is over and candidates have read the costs of intervals of
\* two and of three matrices.
ReadsWitness ==
    /\ pc = "done"
    /\ \E r \in readLog : r[2] - r[1] = 1 /\ r[3] > 0
    /\ \E r \in readLog : r[2] - r[1] = 2 /\ r[3] > 0

\* C9 as stated: s[i][j] is written exactly once per pass, never overwritten.
SplitWrittenOnce ==
    \A ab \in DOMAIN sLog : Len(sLog[ab]) <= 1

\* C9 amended: s[i][j] is written only in steps of the scan of [i, j] that also
\* write m[i][j], once for each candidate strictly smaller than every earlier one
\* (so possibly several times, each write overwriting the previous one); the split
\* points written increase, the costs written decrease, and after the last write
\* s[i][j] and m[i][j] keep the values of that write.
SplitWrittenWithCost ==
    \A ab \in DOMAIN sLog :
        LET w == sLog[ab]
            a == ab[1]
            b == ab[2]
        IN /\ w = <<>> => s[a][b] = 0
           /\ w # <<>> => (s[a][b] = w[Len(w)][1] /\ m[a][b] = w[Len(w)][2])
           /\ \A x \in 1..Len(w) : a <= w[x][1] /\ w[x][1] < b
           /\ \A x \in 1..(Len(w) - 1) : w[x][1] < w[x + 1][1] /\ w[x + 1][2] < w[x][2]
           /\ Len(w) > 0 => (b - a + 1 < L \/ (b - a + 1 = L /\ a <= i))

\* C9 witness: the pass is over and some s[i][j] was written twice.
SplitWitness ==
    pc = "done" /\ \E ab \in DOMAIN sLog : Len(sLog[ab]) = 2 /\ s[ab[1]][ab[2]] = ab[1] + 1

\* C10: in random mode no product, candidate or stored cost leaves the range of a
\* signed 32-bit int, and the reported cost is the true minimum.
CostsFitInInt ==
    /\ ~overflowed
    /\ pc # "crashed"
    /\ Reported => costOut = BruteForceMin

====
